---- MODULE Spec2Model ----
(***************************************************************************)
(* Model of the gradient-checkpointing state store of burn-autodiff        *)
(* (burn-autodiff/src/checkpoint/state.rs): the per-node State enum and    *)
(* the BackwardStates map with get_state / insert_state / save / extend /  *)
(* get_mut + increment.                                                    *)
(*                                                                         *)
(* A panic (unwrap on None, unreachable!, panic!) is modelled as an        *)
(* operation outcome res = "panic"; the map keeps whatever the code had    *)
(* done to it before the panic, which is what an unwinding caller sees.    *)
(***************************************************************************)
EXTENDS Integers, FiniteSets, Sequences, TLC

\* ---------------------------------------------------------------- bounds
NumStores == 2
NumNodes == 2
MaxN == 3
NumVals == 1

Stores == 1..NumStores
Nodes == 1..NumNodes
\* The static types a caller can store and ask for (T of save<T>/get_state<T>).
Types == {"i64", "String"}

VARIABLES stores, last, track, origin
vars == <<stores, last, track, origin>>

\* ------------------------------------------------------------ data model
\* StateContent: a boxed value with its dynamic type.
StateContent == [ty : Types, val : 1..NumVals]
NoContent == [ty |-> "none", val |-> 0]

Recompute(n) == [kind |-> "Recompute", state_content |-> NoContent, n_required |-> n]
Computed(c, n) == [kind |-> "Computed", state_content |-> c, n_required |-> n]

\* The states a caller hands to insert_state: counters of at least 1.
InsertableStates ==
    {Recompute(n) : n \in 1..MaxN} \cup {Computed(c, n) : c \in StateContent, n \in 1..MaxN}

\* BackwardStates::default(): the empty HashMap (a function with empty domain).
EmptyMap == [k \in {} |-> Recompute(0)]

\* Variant of remove that empties the map.
MapRemoveClears(m, id) == EmptyMap

MapRemove(m, id) == [k \in (DOMAIN m) \ {id} |-> m[k]]
\* Variant of insert that adds the counter of the entry it replaces.
MapInsertAccumulates(m, id, st) ==
    [k \in (DOMAIN m) \cup {id} |->
        IF k = id
        THEN IF id \in DOMAIN m
             THEN [st EXCEPT !.n_required = @ + m[id].n_required]
             ELSE st
        ELSE m[k]]

MapInsert(m, id, st) == [k \in (DOMAIN m) \cup {id} |-> IF k = id THEN st ELSE m[k]]
len(m) == Cardinality(DOMAIN m)

\* ----------------------------------------------------------------- State
\* The outcome of an expression that may panic: a value or the marker.
PANIC == [kind |-> "PANIC", state_content |-> NoContent, n_required |-> 0]
PanicContent == [ty |-> "PANIC", val |-> 0]

ToStateContent(state) ==
    IF state.kind = "Recompute" THEN PanicContent ELSE state.state_content

IntoStateContent(state) ==
    IF state.kind = "Recompute" THEN PanicContent ELSE state.state_content

NRequired(state) == state.n_required

\* Variant of increment that leaves a Computed state as it is.
IncrementRecomputeOnly(state) ==
    IF state.kind = "Recompute" THEN [state EXCEPT !.n_required = @ + 1] ELSE state

Increment(state) == [state EXCEPT !.n_required = @ + 1]

\* Variant of merge that takes over the argument's content.
MergeKeepsOtherContent(self, other) ==
    IF other.kind = self.kind
    THEN [other EXCEPT !.n_required = @ + self.n_required]
    ELSE PANIC

\* Variant of merge that also merges states of different kinds.
MergeAcceptsMixed(self, other) ==
    [self EXCEPT !.n_required = @ + other.n_required]

\* Variant of merge that forgets the argument's counter.
MergeKeepsOwnCount(self, other) ==
    IF other.kind = self.kind THEN self ELSE PANIC

\* self.merge(other): the receiver keeps its own content, counters add up;
\* different kinds panic.
Merge(self, other) ==
    IF other.kind = "Recompute"
    THEN IF self.kind = "Recompute"
         THEN [self EXCEPT !.n_required = @ + other.n_required]
         ELSE PANIC
    ELSE IF self.kind = "Recompute"
         THEN PANIC
         ELSE [self EXCEPT !.n_required = @ + other.n_required]

\* Variant of the downcast that does not look at the dynamic type.
DowncastUnchecked(content, T) ==
    IF content = PanicContent THEN PanicContent
    ELSE [content EXCEPT !.ty = T]

\* Box<dyn Any>::downcast_ref::<T>() / downcast::<T>(): Some iff the dynamic
\* type is T; the following unwrap() panics otherwise.
Downcast(content, T) ==
    IF content = PanicContent THEN PanicContent
    ELSE IF content.ty = T THEN content ELSE PanicContent

\* T::clone of the downcast value.
Clone(content) == content

\* -------------------------------------------------------- BackwardStates
\* Variant of get_state that puts the entry back while remaining >= 0.
GetStateKeepsZero(m, id, T) ==
    IF id \notin DOMAIN m
    THEN [map |-> m, res |-> "panic", ret |-> NoContent]
    ELSE LET state == m[id]
             removed == MapRemove(m, id)
             remaining_n_required == NRequired(state) - 1
             downcasted == Downcast(ToStateContent(state), T)
         IN  IF downcasted = PanicContent
             THEN [map |-> removed, res |-> "panic", ret |-> NoContent]
             ELSE IF remaining_n_required >= 0
                  THEN [map |-> MapInsert(removed, id,
                                          [state EXCEPT !.n_required = remaining_n_required]),
                        res |-> "ok", ret |-> Clone(downcasted)]
                  ELSE [map |-> removed, res |-> "ok", ret |-> downcasted]

\* Variant of get_state that looks at the entry before it takes it out, so
\* that a failing call leaves the entry in the map.
GetStateChecksFirst(m, id, T) ==
    IF id \notin DOMAIN m
    THEN [map |-> m, res |-> "panic", ret |-> NoContent]
    ELSE LET state == m[id]
             downcasted == Downcast(ToStateContent(state), T)
         IN  IF downcasted = PanicContent
             THEN [map |-> m, res |-> "panic", ret |-> NoContent]
             ELSE IF NRequired(state) - 1 > 0
                  THEN [map |-> [m EXCEPT ![id].n_required = @ - 1],
                        res |-> "ok", ret |-> Clone(downcasted)]
                  ELSE [map |-> MapRemove(m, id), res |-> "ok", ret |-> downcasted]

\* Variant of get_state that answers a missing entry with a default value.
GetStateDefaultOnMissing(m, id, T) ==
    IF id \notin DOMAIN m
    THEN [map |-> m, res |-> "ok", ret |-> [ty |-> T, val |-> 1]]
    ELSE LET state == m[id]
             removed == MapRemove(m, id)
             downcasted == Downcast(ToStateContent(state), T)
         IN  IF downcasted = PanicContent
             THEN [map |-> removed, res |-> "panic", ret |-> NoContent]
             ELSE IF NRequired(state) - 1 > 0
                  THEN [map |-> MapInsert(removed, id,
                                          [state EXCEPT !.n_required = @ - 1]),
                        res |-> "ok", ret |-> Clone(downcasted)]
                  ELSE [map |-> removed, res |-> "ok", ret |-> downcasted]

\* Variant of get_state that puts a decremented Recompute state back and
\* returns without a value instead of panicking.
GetStateReinsertsRecompute(m, id, T) ==
    IF id \notin DOMAIN m
    THEN [map |-> m, res |-> "panic", ret |-> NoContent]
    ELSE LET state == m[id]
             removed == MapRemove(m, id)
             downcasted == Downcast(ToStateContent(state), T)
         IN  IF NRequired(state) - 1 > 0
             THEN IF state.kind = "Recompute"
                  THEN [map |-> MapInsert(removed, id,
                                          [state EXCEPT !.n_required = @ - 1]),
                        res |-> "ok", ret |-> NoContent]
                  ELSE IF downcasted = PanicContent
                       THEN [map |-> removed, res |-> "panic", ret |-> NoContent]
                       ELSE [map |-> MapInsert(removed, id,
                                               [state EXCEPT !.n_required = @ - 1]),
                             res |-> "ok", ret |-> Clone(downcasted)]
             ELSE IF downcasted = PanicContent
                  THEN [map |-> removed, res |-> "panic", ret |-> NoContent]
                  ELSE [map |-> removed, res |-> "ok", ret |-> downcasted]

\* get_state::<T>(node_id): [map, res, ret].
GetState(m, id, T) ==
    IF id \notin DOMAIN m
    THEN [map |-> m, res |-> "panic", ret |-> NoContent]
    ELSE LET state == m[id]
             removed == MapRemove(m, id)
             remaining_n_required == NRequired(state) - 1
         IN  IF remaining_n_required > 0
             THEN LET new_stored_state == [state EXCEPT !.n_required = remaining_n_required]
                      downcasted == Downcast(ToStateContent(new_stored_state), T)
                  IN  IF downcasted = PanicContent
                      THEN [map |-> removed, res |-> "panic", ret |-> NoContent]
                      ELSE [map |-> MapInsert(removed, id, new_stored_state),
                            res |-> "ok", ret |-> Clone(downcasted)]
             ELSE LET downcasted == Downcast(IntoStateContent(state), T)
                  IN  IF downcasted = PanicContent
                      THEN [map |-> removed, res |-> "panic", ret |-> NoContent]
                      ELSE [map |-> removed, res |-> "ok", ret |-> downcasted]

\* Variant of save that registers a missing node with a counter of 1.
SaveInsertsOnMissing(m, id, v) ==
    IF id \notin DOMAIN m
    THEN [map |-> MapInsert(m, id, Computed(v, 1)), res |-> "ok"]
    ELSE [map |-> MapInsert(m, id, Computed(v, NRequired(m[id]))), res |-> "ok"]

\* Variant of save that restarts the counter at 1.
SaveResetsCounter(m, id, v) ==
    IF id \notin DOMAIN m
    THEN [map |-> m, res |-> "panic"]
    ELSE [map |-> MapInsert(m, id, Computed(v, 1)), res |-> "ok"]

\* save::<T>(node_id, saved_output): [map, res].
Save(m, id, v) ==
    IF id \notin DOMAIN m
    THEN [map |-> m, res |-> "panic"]
    ELSE [map |-> MapInsert(m, id, Computed(v, NRequired(m[id]))), res |-> "ok"]

\* One iteration order of other.map.into_iter(): a sequence without
\* repetition over the keys of other.
Orders(S) ==
    {q \in [1..Cardinality(S) -> S] : \A i, j \in 1..Cardinality(S) : q[i] = q[j] => i = j}

\* The loop of extend over the remaining keys `order`; stops at a panic of
\* merge, when the removed entry s has not been put back.
RECURSIVE ExtendLoop(_, _, _)
ExtendLoop(self, other, order) ==
    IF order = <<>>
    THEN [map |-> self, res |-> "ok"]
    ELSE LET node_id == Head(order)
             state == other[node_id]
         IN  IF node_id \in DOMAIN self
             THEN LET s == Merge(self[node_id], state)
                  IN  IF s = PANIC
                      THEN [map |-> MapRemove(self, node_id), res |-> "panic"]
                      ELSE ExtendLoop(MapInsert(MapRemove(self, node_id), node_id, s),
                                      other, Tail(order))
             ELSE ExtendLoop(MapInsert(self, node_id, state), other, Tail(order))

\* extend(other) under every iteration order of the HashMap.
ExtendOutcomes(self, other) ==
    {ExtendLoop(self, other, order) : order \in Orders(DOMAIN other)}

\* Counters of the model stay within MaxN (usize is never exhausted).
ExtendFits(self, other) ==
    \A k \in (DOMAIN self) \cap (DOMAIN other) :
        self[k].n_required + other[k].n_required <= MaxN

\* ---------------------------------------------------------------- state
\* stores : the live BackwardStates values, by slot (a moved or dropped
\*          store has no slot);
\* last   : the operation that produced the current state, with what it found,
\*          what it returned and whether it panicked;
\* track  : history of one consumption run: a node saved over a Recompute
\*          entry (mode "save"), merged by extend (mode "extend") or followed
\*          from its registration by insert_state (mode "register"), and the
\*          get_state calls on it since; in mode "protocol" the position of
\*          every node in the caller's protocol (register, save, n gets).
\*          The mode is fixed by the initial state;
\* origin : the stores as they were constructed.
NoState == [kind |-> "None", state_content |-> NoContent, n_required |-> 0]

NoOp == [op |-> "init", s |-> 0, o |-> 0, id |-> 0, ty |-> "none",
         arg |-> NoContent, st |-> NoState, found |-> NoState, merged |-> {},
         res |-> "ok", ret |-> NoContent]

TrackIdle(mode) == [mode |-> mode, phase |-> "none", s |-> 0, id |-> 0, k |-> 0,
                    v |-> NoContent, got |-> 0, incs |-> 0, nodes |-> <<>>]

Live == DOMAIN stores

NoTrack == TrackIdle(track.mode)

\* What self.map.remove(node_id) / self.map.get(node_id) finds: the state, or
\* NoState for None.
Found(m, id) == IF id \in DOMAIN m THEN m[id] ELSE NoState

Tracked(s, id) == track.phase # "none" /\ track.s = s /\ track.id = id

\* An operation that rewrites the entry of (s, id) ends the run on it.
TrackDrop(s, id) == IF Tracked(s, id) THEN NoTrack ELSE track

\* The caller's protocol, per node: "new", "registered", "saved" (left = the
\* get_state calls still to make, ty = the type saved), "done".
ProtocolStart == [id \in Nodes |-> [pc |-> "new", left |-> 0, ty |-> "none"]]

\* The history after insert_state(id, st) on store s.
TrackInsert(s, id, st) ==
    IF track.mode = "protocol"
    THEN {[track EXCEPT !.nodes[id] = [pc |-> "registered", left |-> st.n_required,
                                       ty |-> "none"]]}
    ELSE IF track.mode = "save" /\ Tracked(s, id) /\ track.phase = "active"
    THEN {[track EXCEPT !.phase = "replaced"]}
    ELSE {TrackDrop(s, id)} \cup
         IF track.mode = "register" /\ st.kind = "Recompute"
         THEN {[TrackIdle("register") EXCEPT !.phase = "registered", !.s = s, !.id = id,
                                             !.k = st.n_required]}
         ELSE {}

\* The history after get_mut(id) + increment on store s.
TrackIncrement(s, id) ==
    IF track.mode = "register" /\ Tracked(s, id) /\ track.phase = "registered"
    THEN [track EXCEPT !.k = @ + 1, !.incs = @ + 1]
    ELSE TrackDrop(s, id)

\* The run after get_state::<T>(id) on store s.
TrackGet(s, id, T) ==
    IF track.mode = "protocol"
    THEN [track EXCEPT !.nodes[id].left = @ - 1,
                       !.nodes[id].pc = IF track.nodes[id].left = 1 THEN "done" ELSE "saved"]
    ELSE
    IF ~Tracked(s, id) THEN track
    ELSE IF track.phase = "active" /\ T = track.v.ty
         THEN [track EXCEPT !.got = @ + 1,
                            !.phase = IF track.got + 1 = track.k THEN "exhausted" ELSE "active"]
         ELSE IF track.phase = "exhausted"
              THEN [track EXCEPT !.got = @ + 1, !.phase = "overrun"]
              ELSE NoTrack

\* The runs that may start at save(id, v) on store s.
TrackSave(s, id, v) ==
    IF track.mode = "protocol"
    THEN {[track EXCEPT !.nodes[id].pc = "saved", !.nodes[id].ty = v.ty]}
    ELSE IF track.mode = "register" /\ Tracked(s, id) /\ track.phase = "registered"
    THEN {[track EXCEPT !.phase = "active", !.v = v]}
    ELSE
    {TrackDrop(s, id)} \cup
    IF track.mode = "save" /\ Found(stores[s], id).kind = "Recompute"
    THEN {[mode |-> "save", phase |-> "active", s |-> s, id |-> id,
           k |-> stores[s][id].n_required, v |-> v, got |-> 0,
           incs |-> 0, nodes |-> <<>>]}
    ELSE {}

\* The runs that may start at s.extend(o) with outcome r: one per node that
\* is Computed in both stores.
TrackExtend(s, o, r) ==
    {IF track.s = o \/ (track.s = s /\ track.id \in DOMAIN stores[o])
     THEN NoTrack ELSE track} \cup
    IF track.mode = "extend" /\ r.res = "ok"
    THEN {[mode |-> "extend", phase |-> "active", s |-> s, id |-> n,
           k |-> stores[s][n].n_required + stores[o][n].n_required,
           v |-> r.map[n].state_content, got |-> 0,
           incs |-> 0, nodes |-> <<>>] :
              n \in {i \in (DOMAIN stores[s]) \cap (DOMAIN stores[o]) :
                        /\ stores[s][i].kind = "Computed"
                        /\ stores[o][i].kind = "Computed"}}
    ELSE {}

Init ==
    /\ stores = [s \in Stores |-> EmptyMap]
    /\ last = NoOp
    /\ track = TrackIdle("off")
    /\ origin = stores

\* BackwardStates::default() in a free slot (after extend consumed a store).
new(s) ==
    /\ s \notin Live
    /\ stores' = [k \in Live \cup {s} |-> IF k = s THEN EmptyMap ELSE stores[k]]
    /\ last' = [NoOp EXCEPT !.op = "new", !.s = s]
    /\ UNCHANGED <<track, origin>>

insert_state(s, id, st) ==
    /\ s \in Live
    /\ stores' = [stores EXCEPT ![s] = MapInsert(@, id, st)]
    /\ last' = [NoOp EXCEPT !.op = "insert_state", !.s = s, !.id = id, !.st = st]
    /\ track' \in TrackInsert(s, id, st)
    /\ UNCHANGED origin

save(s, id, v) ==
    /\ s \in Live
    /\ LET r == Save(stores[s], id, v)
       IN  /\ stores' = [stores EXCEPT ![s] = r.map]
           /\ last' = [NoOp EXCEPT !.op = "save", !.s = s, !.id = id,
                                   !.arg = v, !.res = r.res]
    /\ track' \in TrackSave(s, id, v)
    /\ UNCHANGED origin

get_state(s, id, T) ==
    /\ s \in Live
    /\ LET r == GetState(stores[s], id, T)
       IN  /\ stores' = [stores EXCEPT ![s] = r.map]
           /\ last' = [NoOp EXCEPT !.op = "get_state", !.s = s, !.id = id,
                                   !.ty = T, !.found = Found(stores[s], id),
                                   !.res = r.res, !.ret = r.ret]
    /\ track' = TrackGet(s, id, T)
    /\ UNCHANGED origin

\* get_mut(id) followed by State::increment on the entry found.
increment(s, id) ==
    /\ s \in Live
    /\ id \in DOMAIN stores[s]
    /\ stores[s][id].n_required < MaxN
    /\ stores' = [stores EXCEPT ![s] = MapInsert(@, id, Increment(@[id]))]
    /\ last' = [NoOp EXCEPT !.op = "increment", !.s = s, !.id = id]
    /\ track' = TrackIncrement(s, id)
    /\ UNCHANGED origin

\* self.extend(other): other is moved into the call and dropped.
extend(s, o) ==
    /\ s \in Live
    /\ o \in Live
    /\ s # o
    /\ ExtendFits(stores[s], stores[o])
    /\ \E r \in ExtendOutcomes(stores[s], stores[o]) :
          /\ stores' = [k \in Live \ {o} |-> IF k = s THEN r.map ELSE stores[k]]
          /\ last' = [NoOp EXCEPT !.op = "extend", !.s = s, !.o = o, !.res = r.res,
                                  !.merged = (DOMAIN stores[s]) \cap (DOMAIN stores[o])]
          /\ track' \in TrackExtend(s, o, r)
    /\ UNCHANGED origin

Next ==
    \/ \E s \in Stores : new(s)
    \/ \E s \in Stores, id \in Nodes, st \in InsertableStates : insert_state(s, id, st)
    \/ \E s \in Stores, id \in Nodes, v \in StateContent : save(s, id, v)
    \/ \E s \in Stores, id \in Nodes, T \in Types : get_state(s, id, T)
    \/ \E s \in Stores, id \in Nodes : increment(s, id)
    \/ \E s, o \in Stores : extend(s, o)

Spec == Init /\ [][Next]_vars

\* Two stores built, merged once and consumed (no store is constructed
\* later), the history following runs started by extend.
InitExt ==
    /\ stores = [s \in Stores |-> EmptyMap]
    /\ last = NoOp
    /\ track = TrackIdle("extend")
    /\ origin = stores

NextExt ==
    \/ \E s \in Stores, id \in Nodes, st \in InsertableStates : insert_state(s, id, st)
    \/ \E s \in Stores, id \in Nodes, v \in StateContent : save(s, id, v)
    \/ \E s \in Stores, id \in Nodes, T \in Types : get_state(s, id, T)
    \/ \E s \in Stores, id \in Nodes : increment(s, id)
    \/ \E s, o \in Stores : extend(s, o)

SpecExt == InitExt /\ [][NextExt]_vars

\* Three stores merged by extend calls only, from every triple of stores that
\* callers can build and whose states for a shared node have one kind.
MergeStores == {1, 2, 3}

Maps == UNION {[D -> InsertableStates] : D \in SUBSET Nodes}

KindCompatible(A, B) ==
    \A id \in (DOMAIN A) \cap (DOMAIN B) : A[id].kind = B[id].kind

RECURSIVE SumRequired(_, _, _)
SumRequired(st, S, id) ==
    IF S = {} THEN 0
    ELSE LET s == CHOOSE x \in S : TRUE
         IN  (IF id \in DOMAIN st[s] THEN st[s][id].n_required ELSE 0)
             + SumRequired(st, S \ {s}, id)

InitMerge ==
    /\ stores \in [MergeStores -> Maps]
    /\ \A a, b \in MergeStores : KindCompatible(stores[a], stores[b])
    /\ \A id \in Nodes : SumRequired(stores, MergeStores, id) <= MaxN
    /\ last = NoOp
    /\ track = TrackIdle("off")
    /\ origin = stores

NextMerge == \E s, o \in MergeStores : extend(s, o)

SpecMerge == InitMerge /\ [][NextMerge]_vars

\* One store used alone (no extend), the history following runs started by save.
InitOne ==
    /\ stores = [s \in {1} |-> EmptyMap]
    /\ last = NoOp
    /\ track = TrackIdle("save")
    /\ origin = stores

NextOne ==
    \/ \E s \in Stores, id \in Nodes, st \in InsertableStates : insert_state(s, id, st)
    \/ \E s \in Stores, id \in Nodes, v \in StateContent : save(s, id, v)
    \/ \E s \in Stores, id \in Nodes, T \in Types : get_state(s, id, T)
    \/ \E s \in Stores, id \in Nodes : increment(s, id)

SpecOne == InitOne /\ [][NextOne]_vars

\* One store used alone, the history following a node from its registration
\* as Recompute through its increments, its save and its gets.
InitReg ==
    /\ stores = [s \in {1} |-> EmptyMap]
    /\ last = NoOp
    /\ track = TrackIdle("register")
    /\ origin = stores

SpecReg == InitReg /\ [][NextOne]_vars

\* One store driven by a caller that follows the protocol: each node is
\* inserted once as Recompute{n}, saved once, then read by exactly n
\* get_state calls that ask for the type saved; nodes interleave freely.
InitProtocol ==
    /\ stores = [s \in {1} |-> EmptyMap]
    /\ last = NoOp
    /\ track = [TrackIdle("protocol") EXCEPT !.nodes = ProtocolStart]
    /\ origin = stores

NextProtocol ==
    \/ \E id \in Nodes, n \in 1..MaxN :
          track.nodes[id].pc = "new" /\ insert_state(1, id, Recompute(n))
    \/ \E id \in Nodes, v \in StateContent :
          track.nodes[id].pc = "registered" /\ save(1, id, v)
    \/ \E id \in Nodes :
          track.nodes[id].pc = "saved" /\ get_state(1, id, track.nodes[id].ty)

SpecProtocol == InitProtocol /\ [][NextProtocol]_vars

\* ================================================================ claims
\* Same key set and, for every id, same kind and same n_required.
SameCounters(X, Y) ==
    /\ DOMAIN X = DOMAIN Y
    /\ \A id \in DOMAIN X :
          X[id].kind = Y[id].kind /\ X[id].n_required = Y[id].n_required

\* C1 Conservation: a node saved with value v over Recompute{k} and then
\* read by get_state::<T> (T the type of v) returns v on each of its k
\* calls; the first k-1 leave the entry in place, the k-th removes it and
\* len() is one less than before that call.
C1_Conservation ==
    [][(track.mode = "save" /\ track.phase = "active" /\ track'.got = track.got + 1)
       => /\ last'.op = "get_state"
          /\ last'.res = "ok"
          /\ last'.ret = track.v
          /\ IF track.got + 1 < track.k
             THEN /\ track.id \in DOMAIN stores'[track.s]
                  /\ len(stores'[track.s]) = len(stores[track.s])
             ELSE /\ track.id \notin DOMAIN stores'[track.s]
                  /\ len(stores'[track.s]) = len(stores[track.s]) - 1]_vars

\* A run of MaxN calls has ended: the last call returned v and evicted the node.
C1_Witness ==
    /\ track.mode = "save" /\ track.phase = "exhausted"
    /\ track.k = MaxN /\ track.got = MaxN
    /\ last.op = "get_state" /\ last.res = "ok" /\ last.ret = track.v
    /\ last.s = track.s /\ last.id = track.id
    /\ track.id \notin DOMAIN stores[track.s]

\* C2 Counter decrement: a successful get_state on a Computed entry with
\* n_required = n > 1 leaves the entry Computed with the same payload and
\* n_required = n - 1; with n = 1 the entry is removed.
C2_CounterDecrement ==
    [][(last'.op = "get_state" /\ last'.res = "ok"
        /\ Found(stores[last'.s], last'.id).kind = "Computed")
       => LET s == last'.s
              id == last'.id
              e == stores[s][id]
          IN  IF e.n_required > 1
              THEN /\ id \in DOMAIN stores'[s]
                   /\ stores'[s][id].kind = "Computed"
                   /\ stores'[s][id].state_content = e.state_content
                   /\ stores'[s][id].n_required = e.n_required - 1
              ELSE id \notin DOMAIN stores'[s]]_vars

\* A non-final get has left a Computed entry with a decremented counter.
C2_Witness ==
    /\ last.op = "get_state" /\ last.res = "ok"
    /\ last.found.kind = "Computed" /\ last.found.n_required = MaxN
    /\ last.id \in DOMAIN stores[last.s]
    /\ stores[last.s][last.id].n_required = MaxN - 1

\* C3 Every entry present in a map has n_required > 0.
C3_CounterPositive ==
    \A s \in Live : \A id \in DOMAIN stores[s] : stores[s][id].n_required > 0

\* The final get of a node took its counter to zero and the entry is gone,
\* while another entry remains.
C3_Witness ==
    /\ last.op = "get_state" /\ last.res = "ok"
    /\ last.found.n_required = 1
    /\ last.id \notin DOMAIN stores[last.s]
    /\ len(stores[last.s]) = 1

\* C4 Save preserves counter: save(id, v) on an id that has an entry with
\* n_required = n succeeds and leaves Computed{v, n} for id; the key set,
\* len() and the entries of the other ids (and the other stores) are unchanged.
C4_SavePreservesCounter ==
    [][(last'.op = "save" /\ last'.id \in DOMAIN stores[last'.s])
       => LET s == last'.s
              id == last'.id
              n == stores[s][id].n_required
          IN  /\ last'.res = "ok"
              /\ DOMAIN stores'[s] = DOMAIN stores[s]
              /\ len(stores'[s]) = len(stores[s])
              /\ stores'[s][id].kind = "Computed"
              /\ stores'[s][id].state_content = last'.arg
              /\ stores'[s][id].n_required = n
              /\ \A k \in (DOMAIN stores[s]) \ {id} : stores'[s][k] = stores[s][k]
              /\ \A t \in Live \ {s} : stores'[t] = stores[t]]_vars

\* save has replaced an entry that carries a counter of MaxN, next to another entry.
C4_Witness ==
    /\ last.op = "save" /\ last.res = "ok"
    /\ stores[last.s][last.id] = Computed(last.arg, MaxN)
    /\ len(stores[last.s]) = 2

\* C5 Merge without double-counting or loss: after S1.extend(S2) with N
\* Computed in both (counters a and b), the first a + b calls get_state(N)
\* succeed, N is absent after call a + b, and call a + b + 1 panics.
C5_MergeThenConsume ==
    [][(track.mode = "extend" /\ Tracked(track.s, track.id)
        /\ last'.op = "get_state" /\ last'.s = track.s /\ last'.id = track.id)
       => /\ (track.phase = "active" /\ last'.ty = track.v.ty)
                => /\ last'.res = "ok"
                   /\ (track.got + 1 < track.k) = (track.id \in DOMAIN stores'[track.s])
          /\ track.phase = "exhausted" => last'.res = "panic"]_vars

\* The merged node was read a + b times and the next call has panicked.
C5_Witness ==
    /\ track.mode = "extend" /\ track.phase = "overrun"
    /\ track.k = MaxN /\ track.got = MaxN + 1
    /\ last.op = "get_state" /\ last.res = "panic"
    /\ last.s = track.s /\ last.id = track.id

\* C6 extend result: for stores A and B that hold no id with different kinds,
\* A.extend(B) succeeds, the key set of A becomes the union, an id of both
\* keeps its kind and gets the sum of the two counters, an id of only one
\* keeps exactly the state it had there.
C6_ExtendResult ==
    [][(last'.op = "extend" /\ KindCompatible(stores[last'.s], stores[last'.o]))
       => LET A == stores[last'.s]
              B == stores[last'.o]
              R == stores'[last'.s]
          IN  /\ last'.res = "ok"
              /\ DOMAIN R = (DOMAIN A) \cup (DOMAIN B)
              /\ \A id \in DOMAIN R :
                    IF id \in (DOMAIN A) \cap (DOMAIN B)
                    THEN /\ R[id].kind = A[id].kind
                         /\ R[id].kind = B[id].kind
                         /\ R[id].n_required = A[id].n_required + B[id].n_required
                    ELSE IF id \in DOMAIN A THEN R[id] = A[id] ELSE R[id] = B[id]]_vars

\* extend has merged one shared id to a counter of MaxN and carried another id over.
C6_Witness ==
    /\ last.op = "extend" /\ last.res = "ok"
    /\ Cardinality(last.merged) = 1
    /\ len(stores[last.s]) = 2
    /\ \A id \in last.merged : stores[last.s][id].n_required = MaxN

\* C7 Merge commutativity: for kind-compatible stores A and B, A.extend(B)
\* and B.extend(A) both succeed and give the same key set and, for every id,
\* the same kind and the same n_required.
C7_MergeCommutes ==
    [][(last'.op = "extend" /\ KindCompatible(stores[last'.s], stores[last'.o]))
       => /\ last'.res = "ok"
          /\ \A r \in ExtendOutcomes(stores[last'.o], stores[last'.s]) :
                r.res = "ok" /\ SameCounters(stores'[last'.s], r.map)]_vars

\* extend has merged a shared Computed id and carried over an id of one store.
C7_Witness ==
    /\ last.op = "extend" /\ last.res = "ok"
    /\ last.merged # {}
    /\ last.merged # DOMAIN stores[last.s]
    /\ \E id \in last.merged : stores[last.s][id].kind = "Computed"

\* Every final store that some order and grouping of extend calls produces
\* from the stores st.
RECURSIVE Finals(_)
Finals(st) ==
    IF Cardinality(DOMAIN st) <= 1
    THEN {st[s] : s \in DOMAIN st}
    ELSE UNION {UNION {Finals([k \in (DOMAIN st) \ {p[2]} |->
                                  IF k = p[1] THEN r.map ELSE st[k]]) :
                          r \in ExtendOutcomes(st[p[1]], st[p[2]])} :
                   p \in {q \in (DOMAIN st) \X (DOMAIN st) : q[1] # q[2]}}

\* C8 Merge order-independence over three stores: whatever order and
\* grouping of extend calls combined the three stores, the store left has
\* the key set and the n_required of every other order and grouping.
C8_OrderIndependent ==
    Cardinality(Live) = 1
       => /\ last.res = "ok"
          /\ \A s \in Live : \A f \in Finals(origin) : SameCounters(stores[s], f)

\* Three stores that all held one id with counter 1 are merged into one.
C8_Witness ==
    /\ Cardinality(DOMAIN origin) = 3
    /\ Cardinality(Live) = 1
    /\ last.op = "extend"
    /\ \E id \in Nodes :
          /\ \A s \in DOMAIN origin : id \in DOMAIN origin[s]
          /\ \A s \in Live : stores[s][id].n_required = 3
    /\ \E id \in Nodes : \E s \in DOMAIN origin : id \notin DOMAIN origin[s]

\* C9 get_state on an id without entry panics, returns no value and leaves
\* every store as it was.
C9_GetMissingPanics ==
    [][(last'.op = "get_state" /\ last'.id \notin DOMAIN stores[last'.s])
       => /\ last'.res = "panic"
          /\ last'.ret = NoContent
          /\ stores' = stores]_vars

\* A get on a missing id has panicked, with another entry in the map.
C9_Witness ==
    /\ last.op = "get_state" /\ last.found = NoState /\ last.res = "panic"
    /\ last.id \notin DOMAIN stores[last.s]
    /\ len(stores[last.s]) = 1

\* C10 get_state on a Recompute entry panics for every counter >= 1 and
\* returns no value.
C10_GetRecomputePanics ==
    [][(last'.op = "get_state"
        /\ Found(stores[last'.s], last'.id).kind = "Recompute")
       => /\ last'.res = "panic"
          /\ last'.ret = NoContent]_vars

\* A non-final get (counter > 1) found a Recompute entry and panicked.
C10_Witness ==
    /\ last.op = "get_state" /\ last.res = "panic"
    /\ last.found.kind = "Recompute" /\ last.found.n_required > 1

\* C11 save(id, v) on an id without entry panics: no entry is created and
\* every store is left as it was.
C11_SaveMissingPanics ==
    [][(last'.op = "save" /\ last'.id \notin DOMAIN stores[last'.s])
       => /\ last'.res = "panic"
          /\ last'.id \notin DOMAIN stores'[last'.s]
          /\ stores' = stores]_vars

\* save on a missing id has panicked, next to an entry of another id.
C11_Witness ==
    /\ last.op = "save" /\ last.res = "panic"
    /\ last.id \notin DOMAIN stores[last.s]
    /\ len(stores[last.s]) = 1

\* The ids that two stores hold with different kinds.
Mixed(A, B) == {id \in (DOMAIN A) \cap (DOMAIN B) : A[id].kind # B[id].kind}

\* C12 Merging states of different kinds panics in either order, so extend of
\* two stores that hold an id with different kinds panics and leaves no
\* merged state for such an id: it is gone or still the receiver's own state.
C12_MixedMergePanics ==
    [][(last'.op = "extend" /\ Mixed(stores[last'.s], stores[last'.o]) # {})
       => LET A == stores[last'.s]
              B == stores[last'.o]
              R == stores'[last'.s]
          IN  /\ last'.res = "panic"
              /\ \A id \in Mixed(A, B) :
                    /\ Merge(A[id], B[id]) = PANIC
                    /\ Merge(B[id], A[id]) = PANIC
                    /\ id \notin DOMAIN R \/ R[id] = A[id]
              /\ \E id \in Mixed(A, B) : id \notin DOMAIN R]_vars

\* extend over two stores that share both ids has panicked and the receiver
\* has lost the entry whose merge failed.
C12_Witness ==
    /\ last.op = "extend" /\ last.res = "panic"
    /\ Cardinality(last.merged) = 2
    /\ len(stores[last.s]) = 1

\* C13 get_state::<T> on a Computed entry whose payload has another dynamic
\* type than T panics, for n_required > 1 and for n_required = 1, and returns
\* no value.
C13_TypeMismatchPanics ==
    [][(last'.op = "get_state"
        /\ Found(stores[last'.s], last'.id).kind = "Computed"
        /\ stores[last'.s][last'.id].state_content.ty # last'.ty)
       => /\ last'.res = "panic"
          /\ last'.ret = NoContent]_vars

\* The final get (counter 1) asked for another type than the stored one and panicked.
C13_Witness ==
    /\ last.op = "get_state" /\ last.res = "panic"
    /\ last.found.kind = "Computed" /\ last.found.n_required = 1
    /\ last.found.state_content.ty # last.ty

\* C14 insert_state(id, st) places st: afterwards the entry of id is exactly
\* st, whatever id had before (a prior counter is not added); len() grows by
\* one iff id was absent; the other entries are unchanged.
C14_InsertReplaces ==
    [][(last'.op = "insert_state")
       => LET s == last'.s
              id == last'.id
          IN  /\ last'.res = "ok"
              /\ DOMAIN stores'[s] = (DOMAIN stores[s]) \cup {id}
              /\ stores'[s][id] = last'.st
              /\ len(stores'[s]) = len(stores[s]) + (IF id \in DOMAIN stores[s] THEN 0 ELSE 1)
              /\ \A k \in (DOMAIN stores[s]) \ {id} : stores'[s][k] = stores[s][k]]_vars

\* insert_state has put Recompute{1} over a Computed entry that still had a
\* counter of at least 2, next to another entry.
C14_Witness ==
    /\ track.mode = "save" /\ track.phase = "replaced"
    /\ track.k - track.got >= 2
    /\ last.op = "insert_state" /\ last.s = track.s /\ last.id = track.id
    /\ last.st = Recompute(1)
    /\ stores[last.s][last.id] = Recompute(1)
    /\ len(stores[last.s]) = 2

\* C15 Full consumption empties the store: with every node inserted as
\* Recompute{n}, saved once and read by exactly n get_state calls, in any
\* interleaving across nodes, no operation panics, and once no node is
\* waiting for its save or for a get the store has len() = 0.
C15_FullConsumption ==
    /\ last.res = "ok"
    /\ (\A id \in Nodes : track.nodes[id].pc \in {"new", "done"})
          => \A s \in Live : len(stores[s]) = 0

\* Every node went through the protocol and the store is empty.
C15_Witness ==
    /\ track.mode = "protocol"
    /\ \A id \in Nodes : track.nodes[id].pc = "done"
    /\ last.op = "get_state" /\ last.res = "ok"
    /\ \A s \in Live : len(stores[s]) = 0

\* C16 State::increment (through get_mut) raises n_required by exactly 1
\* and keeps the kind and the payload, for Recompute and for Computed; a node
\* inserted as Recompute{n}, incremented j times and then saved carries
\* n + j, its first n + j get_state calls succeed, the last of them removes
\* it, and the next call panics.
C16_IncrementByOne ==
    [][/\ (last'.op = "increment")
          => LET s == last'.s
                 id == last'.id
             IN  /\ last'.res = "ok"
                 /\ DOMAIN stores'[s] = DOMAIN stores[s]
                 /\ stores'[s][id].kind = stores[s][id].kind
                 /\ stores'[s][id].state_content = stores[s][id].state_content
                 /\ stores'[s][id].n_required = stores[s][id].n_required + 1
       /\ (track.mode = "register" /\ track.phase = "registered" /\ track'.phase = "active")
          => stores'[track.s][track.id].n_required = track.k
       /\ (track.mode = "register" /\ Tracked(track.s, track.id)
           /\ last'.op = "get_state" /\ last'.s = track.s /\ last'.id = track.id)
          => /\ (track.phase = "active" /\ last'.ty = track.v.ty)
                   => /\ last'.res = "ok"
                      /\ (track.got + 1 < track.k) = (track.id \in DOMAIN stores'[track.s])
             /\ track.phase = "exhausted" => last'.res = "panic"]_vars

\* A node registered with 1 and incremented up to MaxN before its save was
\* read MaxN times, and the call after that has panicked.
C16_Witness ==
    /\ track.mode = "register" /\ track.phase = "overrun"
    /\ track.incs = MaxN - 1 /\ track.k = MaxN /\ track.got = MaxN + 1
    /\ last.op = "get_state" /\ last.res = "panic"

\* C17 When two Computed states of one id are merged the result keeps one
\* payload, the receiver's: after A.extend(B) an id that was Computed in
\* both holds the payload A held before the call.
C17_ReceiverPayloadKept ==
    [][(last'.op = "extend" /\ last'.res = "ok")
       => \A id \in (DOMAIN stores[last'.s]) \cap (DOMAIN stores[last'.o]) :
             (stores[last'.s][id].kind = "Computed" /\ stores[last'.o][id].kind = "Computed")
                => /\ id \in DOMAIN stores'[last'.s]
                   /\ stores'[last'.s][id].kind = "Computed"
                   /\ stores'[last'.s][id].state_content
                         = stores[last'.s][id].state_content]_vars

\* The first extend has merged an id whose two payloads differed and the
\* store holds the payload its receiver was built with.
C17_Witness ==
    /\ Cardinality(DOMAIN origin) = 3 /\ Cardinality(Live) = 2
    /\ last.op = "extend" /\ last.res = "ok"
    /\ \E id \in last.merged :
          /\ origin[last.s][id].kind = "Computed"
          /\ origin[last.o][id].state_content # origin[last.s][id].state_content
          /\ stores[last.s][id].state_content = origin[last.s][id].state_content

\* C18 Frame of get_state: a successful get_state(id) leaves every other id
\* with the entry it had (none stays none), leaves the other stores as they
\* were, and changes len() by 0 (non-final get) or by -1 (final get).
C18_GetFrame ==
    [][(last'.op = "get_state" /\ last'.res = "ok")
       => LET s == last'.s
              id == last'.id
          IN  /\ \A k \in Nodes \ {id} : Found(stores'[s], k) = Found(stores[s], k)
              /\ \A t \in Live \ {s} : t \in DOMAIN stores' /\ stores'[t] = stores[t]
              /\ len(stores'[s]) = len(stores[s])
                    - (IF stores[s][id].n_required = 1 THEN 1 ELSE 0)]_vars

\* A non-final get on a counter of MaxN has returned and both entries are there.
C18_Witness ==
    /\ last.op = "get_state" /\ last.res = "ok"
    /\ last.found.n_required = MaxN
    /\ len(stores[last.s]) = 2

\* The step is one of save, get_state, increment, extend.
LifecycleStep == last'.op \in {"save", "get_state", "increment", "extend"}

\* C19 (as claimed, read on the operations that return) Per-node lifecycle
\* under save, get_state, increment and extend: no entry goes from Computed to
\* Recompute, an absent node becomes present only by extend, and an entry
\* changes kind or counter only by Recompute(n) -> Recompute(n+k),
\* Recompute(n) -> Computed(n), Computed(n) -> Computed(n-1) or
\* Computed(1) -> absent.
C19_ClaimedLifecycle ==
    [][(LifecycleStep /\ last'.res = "ok")
       => \A s \in (DOMAIN stores) \cap (DOMAIN stores') : \A id \in Nodes :
             LET pre == Found(stores[s], id)
                 post == Found(stores'[s], id)
             IN  /\ ~(pre.kind = "Computed" /\ post.kind = "Recompute")
                 /\ (pre.kind = "None" /\ post.kind # "None") => last'.op = "extend"
                 /\ (pre.kind # "None"
                     /\ <<pre.kind, pre.n_required>> # <<post.kind, post.n_required>>)
                    => \/ /\ pre.kind = "Recompute" /\ post.kind = "Recompute"
                          /\ post.n_required > pre.n_required
                       \/ /\ pre.kind = "Recompute" /\ post.kind = "Computed"
                          /\ post.n_required = pre.n_required
                       \/ /\ pre.kind = "Computed" /\ post.kind = "Computed"
                          /\ post.n_required = pre.n_required - 1
                       \/ /\ pre.kind = "Computed" /\ pre.n_required = 1
                          /\ post.kind = "None"]_vars

\* C19 (amended) Per-node lifecycle under save, get_state, increment and
\* extend: no entry goes from Computed to Recompute, an absent node becomes
\* present only by extend, and an entry changes kind or counter only by
\* Recompute(n) -> Recompute(n+k), Recompute(n) -> Computed(n),
\* Computed(n) -> Computed(n+k) (increment, merge), Computed(n) -> Computed(n-1),
\* Computed(1) -> absent, or, when get_state or extend panics, entry -> absent.
C19_Lifecycle ==
    [][LifecycleStep
       => \A s \in (DOMAIN stores) \cap (DOMAIN stores') : \A id \in Nodes :
             LET pre == Found(stores[s], id)
                 post == Found(stores'[s], id)
             IN  /\ ~(pre.kind = "Computed" /\ post.kind = "Recompute")
                 /\ (pre.kind = "None" /\ post.kind # "None") => last'.op = "extend"
                 /\ (pre.kind # "None"
                     /\ <<pre.kind, pre.n_required>> # <<post.kind, post.n_required>>)
                    => \/ /\ pre.kind = "Recompute" /\ post.kind = "Recompute"
                          /\ post.n_required > pre.n_required
                          /\ last'.op \in {"increment", "extend"}
                       \/ /\ pre.kind = "Recompute" /\ post.kind = "Computed"
                          /\ post.n_required = pre.n_required
                          /\ last'.op = "save"
                       \/ /\ pre.kind = "Computed" /\ post.kind = "Computed"
                          /\ post.n_required > pre.n_required
                          /\ last'.op \in {"increment", "extend"}
                       \/ /\ pre.kind = "Computed" /\ post.kind = "Computed"
                          /\ post.n_required = pre.n_required - 1
                          /\ last'.op = "get_state" /\ last'.res = "ok"
                       \/ /\ pre.kind = "Computed" /\ pre.n_required = 1
                          /\ post.kind = "None"
                          /\ last'.op = "get_state" /\ last'.res = "ok"
                       \/ /\ post.kind = "None"
                          /\ last'.op \in {"get_state", "extend"}
                          /\ last'.res = "panic"]_vars

\* increment has taken a Computed entry to a counter of MaxN.
C19_Witness ==
    /\ last.op = "increment"
    /\ stores[last.s][last.id].kind = "Computed"
    /\ stores[last.s][last.id].n_required = MaxN

\* C20 A get_state that panics on a present entry (Recompute, or a payload of
\* another type than T) has taken the entry out and does not put it back:
\* afterwards the map holds every entry it held except that of id.
C20_FailedGetRemoves ==
    [][(last'.op = "get_state" /\ last'.res = "panic"
        /\ last'.id \in DOMAIN stores[last'.s])
       => LET s == last'.s
              id == last'.id
          IN  /\ id \notin DOMAIN stores'[s]
              /\ stores' # stores
              /\ len(stores'[s]) = len(stores[s]) - 1
              /\ \A k \in (DOMAIN stores[s]) \ {id} :
                    k \in DOMAIN stores'[s] /\ stores'[s][k] = stores[s][k]]_vars

\* A non-final get of the wrong type has panicked and the Computed entry it
\* found is gone, the other entry is still there.
C20_Witness ==
    /\ last.op = "get_state" /\ last.res = "panic"
    /\ last.found.kind = "Computed" /\ last.found.n_required > 1
    /\ last.id \notin DOMAIN stores[last.s]
    /\ len(stores[last.s]) = 1
====
